---- MODULE Spec2Model ----
(***************************************************************************)
(* Model of src/src/network.ts: a three-layer feed-forward Network trained *)
(* by online backpropagation.                                              *)
(*                                                                         *)
(* Numbers.  The program computes in float64.  A number of the model is a  *)
(* term: the expression the program evaluated to get it, built from        *)
(* literals (Lit), the numbers Math.random returned (Random), the weights  *)
(* a step read (Weight), the float64 operations +, - and * (Plus, Minus,   *)
(* Times) and the application of an activation strategy (Apply).  The      *)
(* model fixes neither what Math.random returns nor what a strategy        *)
(* computes: Random(n) stands for any number of [0, 1), Apply(a, x) for    *)
(* whatever strategy a returns for x.  Two numbers with the same term are  *)
(* the same float64, whatever Math.random returned, because the program    *)
(* got them by the same operations on the same operands in the same order; *)
(* numbers with different terms may differ.  To get the number a run of    *)
(* the program computes, evaluate the term in float64 with Random(n) the   *)
(* n-th number Math.random returned and Weight(m, e, k) entry k of matrix  *)
(* m as it was after e training steps had assigned the weights; the        *)
(* history variable stored keeps these matrices.                           *)
(*                                                                         *)
(* Matrices.  An NdArray is a record [err, shape, data] with row-major     *)
(* data, as in ndarray.  A thrown exception is carried as a record whose   *)
(* err field names the exception; every operation passes on an exception   *)
(* raised while one of its operands was evaluated.                         *)
(***************************************************************************)
EXTENDS Integers, Sequences, FiniteSets, TLC

\* ---------------------------------------------------------------- bounds
MaxSize    == 2   \* largest layer size passed to the constructor
MaxWeights == 6   \* most weights of a Network: hiddenSize * (inputSize + outputSize)
MaxSet     == 2   \* longest trainSet
MaxSteps   == 2   \* training steps attempted over the whole run

\* ------------------------------------------------------------ numbers
\* The float64 of the literal num/den: 0.5 is Lit(1, 2), 0.3 is Lit(3, 10)
Lit(num, den) == <<"lit", num, den>>

\* The n-th number Math.random returned to the constructor
Random(n) == <<"random", n>>

\* Entry k (row-major) of weightsIH (matrix = "IH") or weightsHO ("HO") as it
\* was after `epoch` training steps had assigned the weights
Weight(matrix, epoch, k) == <<"weight", matrix, epoch, k>>

\* float64 x + y, x - y, x * y
Plus(x, y) == <<"+", x, y>>

Minus(x, y) == <<"-", x, y>>

Times(x, y) == <<"*", x, y>>

\* What the strategy act computes for x
Apply(act, x) == <<"apply", act, x>>

\* ------------------------------------------------------------ NdArray
NoErr == "none"

Mat(shape, data) == [err |-> NoErr, shape |-> shape, data |-> data]

Throw(kind) == [err |-> kind, shape |-> <<0, 0>>, data |-> <<>>]

IsMat(m) == m.err = NoErr

shapeSize(shape) == shape[1] * shape[2]

At(m, i, j) == m.data[(i - 1) * m.shape[2] + j]

\* f[1] + ... + f[n], added up from 0 in that order
RECURSIVE SumTo(_, _)
SumTo(f, n) == IF n <= 0 THEN Lit(0, 1) ELSE Plus(SumTo(f, n - 1), f[n])

\* nj.array(v).reshape(1, v.length).T : the column vector of a number[]
column(v) == Mat(<<Len(v), 1>>, v)

\* NdArray.T
T(m) ==
  IF ~IsMat(m) THEN m
  ELSE LET r == m.shape[1]
           c == m.shape[2]
       IN  Mat(<<c, r>>,
               [k \in 1..(r * c) |-> At(m, ((k - 1) % r) + 1, ((k - 1) \div r) + 1)])

\* NdArray.dot for two matrices: ValueError unless the inner dimensions agree
dot(a, b) ==
  IF ~IsMat(a) THEN a
  ELSE IF ~IsMat(b) THEN b
  ELSE IF a.shape[2] = b.shape[1]
  THEN LET r == a.shape[1]
           n == a.shape[2]
           c == b.shape[2]
       IN  Mat(<<r, c>>,
               [k \in 1..(r * c) |->
                  LET i == ((k - 1) \div c) + 1
                      j == ((k - 1) % c) + 1
                  IN  SumTo([x \in 1..n |-> Times(At(a, i, x), At(b, x, j))], n)])
  ELSE Throw("ValueError")

\* Whether an elementwise operation (cwise) accepts its operands: it
\* throws Error unless the shapes are equal
sameShape(a, b) == a.shape = b.shape

\* NdArray.add
add(a, b) ==
  IF ~IsMat(a) THEN a
  ELSE IF ~IsMat(b) THEN b
  ELSE IF sameShape(a, b)
  THEN Mat(a.shape, [k \in DOMAIN a.data |-> Plus(a.data[k], b.data[k])])
  ELSE Throw("Error")

\* NdArray.subtract
subtract(a, b) ==
  IF ~IsMat(a) THEN a
  ELSE IF ~IsMat(b) THEN b
  ELSE IF sameShape(a, b)
  THEN Mat(a.shape, [k \in DOMAIN a.data |-> Minus(a.data[k], b.data[k])])
  ELSE Throw("Error")

\* NdArray.multiply
multiply(a, b) ==
  IF ~IsMat(a) THEN a
  ELSE IF ~IsMat(b) THEN b
  ELSE IF sameShape(a, b)
  THEN Mat(a.shape, [k \in DOMAIN a.data |-> Times(a.data[k], b.data[k])])
  ELSE Throw("Error")

\* NdArray.multiply(number)
scale(a, x) == IF ~IsMat(a) THEN a ELSE Mat(a.shape, [k \in DOMAIN a.data |-> Times(a.data[k], x)])

\* nj.ones(shape)
ones(shape) == Mat(shape, [k \in 1..shapeSize(shape) |-> Lit(1, 1)])

\* ------------------------------------------------- activation strategies
\* The strategies a caller can hand to train.  Sigmoid is the strategy the
\* Network starts with; Caller is a strategy the caller wrote.  Undefined is
\* the absent optional argument.
Undefined == "undefined"

Activators == {"Sigmoid", "Caller"}

\* The elementwise function of a strategy
activate(act, x) == Apply(act, x)

\* ActivationStrategy.execute: calling it on a value that is no strategy
\* is a TypeError
execute(act, m) ==
  IF ~IsMat(m) THEN m
  ELSE IF act \notin Activators THEN Throw("TypeError")
  ELSE Mat(m.shape, [k \in DOMAIN m.data |-> activate(act, m.data[k])])

\* getRandomInt(min, max): an index of [min, max); with an empty range
\* some number at or next to min, which indexes no element of an empty list
getRandomInt(min, max) == IF max > min THEN min..(max - 1) ELSE (min - 1)..(min + 1)

\* ------------------------------------------------------------ Network
\* nj.random([rows, columns]).subtract(0.5): every entry is a number of its
\* own that Math.random returned, less 0.5.  drawn is how many numbers
\* Math.random has returned to the constructor before the call.
generateWeights(rows, columns, drawn) ==
  IF shapeSize(<<rows, columns>>) < 0 THEN Throw("RangeError")
  ELSE Mat(<<rows, columns>>,
           [k \in 1..shapeSize(<<rows, columns>>) |-> Minus(Random(drawn + k), Lit(1, 2))])

\* A mutant of the constructor's first assignment: rows and columns swapped
constructWeightsIH_swapped(inputSz, hiddenSz) == generateWeights(inputSz, hiddenSz, 0)

constructWeightsIH(inputSz, hiddenSz) == generateWeights(hiddenSz, inputSz, 0)

constructWeightsHO(inputSz, hiddenSz, outputSz) ==
  generateWeights(outputSz, hiddenSz, shapeSize(<<hiddenSz, inputSz>>))

\* The matrix a step reads when it evaluates this.weightsIH or
\* this.weightsHO: the entries of the stored matrix, by name
Read(m, matrix, epoch) ==
  IF ~IsMat(m) THEN m
  ELSE Mat(m.shape, [k \in DOMAIN m.data |-> Weight(matrix, epoch, k)])

weightsIHOf(self) == Read(self.weightsIH, "IH", self.epoch)

weightsHOOf(self) == Read(self.weightsHO, "HO", self.epoch)

calcAdditionalWeights(lr, inputs, outputs, errors) ==
  LET one  == ones(outputs.shape)
      arg1 == multiply(multiply(errors, outputs), subtract(one, outputs))
      arg2 == T(inputs)
  IN  scale(dot(arg1, arg2), lr)

forwardPropagation(self, inputMatrix) ==
  LET hiddenInputs  == dot(weightsIHOf(self), inputMatrix)
      hiddenOutputs == execute(self.activator, hiddenInputs)
      finalInputs   == dot(weightsHOOf(self), hiddenOutputs)
      finalOutputs  == execute(self.activator, finalInputs)
  IN  [err |-> finalOutputs.err,
       hiddenOutputs |-> hiddenOutputs,
       finalOutputs |-> finalOutputs]

\* The outcome of a training step: the weights it leaves in the Network,
\* the exception it threw (NoErr if none) and which of the two assignments
\* it executed.  (The stored matrices: self.weightsIH and self.weightsHO
\* where the step assigned nothing.)
Outcome(ih, ho, err, wroteHO, wroteIH) ==
  [weightsIH |-> ih, weightsHO |-> ho, err |-> err,
   wroteHO |-> wroteHO, wroteIH |-> wroteIH]

\* A mutant of backPropagation: weightsHO is assigned before hiddenErrors
\* is computed from this.weightsHO.
backPropagation_stale(self, inputMatrix, targetMatrix, result) ==
  LET hiddenOutputs == result.hiddenOutputs
      finalOutputs  == result.finalOutputs
      outputErrors  == subtract(targetMatrix, finalOutputs)
      additionalHO  == calcAdditionalWeights(self.LR, hiddenOutputs, finalOutputs, outputErrors)
      newHO         == add(weightsHOOf(self), additionalHO)
      hiddenErrors  == dot(T(newHO), outputErrors)
      additionalIH  == calcAdditionalWeights(self.LR, inputMatrix, hiddenOutputs, hiddenErrors)
      newIH         == add(weightsIHOf(self), additionalIH)
  IN  IF ~IsMat(newHO)
      THEN Outcome(self.weightsIH, self.weightsHO, newHO.err, FALSE, FALSE)
      ELSE IF ~IsMat(newIH)
      THEN Outcome(self.weightsIH, newHO, newIH.err, TRUE, FALSE)
      ELSE Outcome(newIH, newHO, NoErr, TRUE, TRUE)

\* A mutant of backPropagation: the second delta is computed from the
\* output layer's values.
backPropagation_wrongLayer(self, inputMatrix, targetMatrix, result) ==
  LET hiddenOutputs == result.hiddenOutputs
      finalOutputs  == result.finalOutputs
      outputErrors  == subtract(targetMatrix, finalOutputs)
      hiddenErrors  == dot(T(weightsHOOf(self)), outputErrors)
      additionalHO  == calcAdditionalWeights(self.LR, hiddenOutputs, finalOutputs, outputErrors)
      additionalIH  == calcAdditionalWeights(self.LR, inputMatrix, finalOutputs, outputErrors)
      newHO         == add(weightsHOOf(self), additionalHO)
      newIH         == add(weightsIHOf(self), additionalIH)
  IN  IF ~IsMat(hiddenErrors)
      THEN Outcome(self.weightsIH, self.weightsHO, hiddenErrors.err, FALSE, FALSE)
      ELSE IF ~IsMat(additionalHO)
      THEN Outcome(self.weightsIH, self.weightsHO, additionalHO.err, FALSE, FALSE)
      ELSE IF ~IsMat(additionalIH)
      THEN Outcome(self.weightsIH, self.weightsHO, additionalIH.err, FALSE, FALSE)
      ELSE IF ~IsMat(newHO)
      THEN Outcome(self.weightsIH, self.weightsHO, newHO.err, FALSE, FALSE)
      ELSE IF ~IsMat(newIH)
      THEN Outcome(self.weightsIH, newHO, newIH.err, TRUE, FALSE)
      ELSE Outcome(newIH, newHO, NoErr, TRUE, TRUE)

\* backPropagation, statement by statement: a statement that throws ends
\* the call and leaves in place the assignments made before it.
backPropagation(self, inputMatrix, targetMatrix, result) ==
  LET hiddenOutputs == result.hiddenOutputs
      finalOutputs  == result.finalOutputs
      outputErrors  == subtract(targetMatrix, finalOutputs)
      hiddenErrors  == dot(T(weightsHOOf(self)), outputErrors)
      additionalHO  == calcAdditionalWeights(self.LR, hiddenOutputs, finalOutputs, outputErrors)
      additionalIH  == calcAdditionalWeights(self.LR, inputMatrix, hiddenOutputs, hiddenErrors)
      newHO         == add(weightsHOOf(self), additionalHO)
      newIH         == add(weightsIHOf(self), additionalIH)
  IN  IF ~IsMat(hiddenErrors)
      THEN Outcome(self.weightsIH, self.weightsHO, hiddenErrors.err, FALSE, FALSE)
      ELSE IF ~IsMat(additionalHO)
      THEN Outcome(self.weightsIH, self.weightsHO, additionalHO.err, FALSE, FALSE)
      ELSE IF ~IsMat(additionalIH)
      THEN Outcome(self.weightsIH, self.weightsHO, additionalIH.err, FALSE, FALSE)
      ELSE IF ~IsMat(newHO)
      THEN Outcome(self.weightsIH, self.weightsHO, newHO.err, FALSE, FALSE)
      ELSE IF ~IsMat(newIH)
      THEN Outcome(self.weightsIH, newHO, newIH.err, TRUE, FALSE)
      ELSE Outcome(newIH, newHO, NoErr, TRUE, TRUE)

trainStep(self, inputs, targets) ==
  LET inputMatrix   == column(inputs)
      targetMatrix  == column(targets)
      forwardResult == forwardPropagation(self, inputMatrix)
  IN  IF forwardResult.err # NoErr
      THEN Outcome(self.weightsIH, self.weightsHO, forwardResult.err, FALSE, FALSE)
      ELSE backPropagation(self, inputMatrix, targetMatrix, forwardResult)

\* Lines 48-50: the strategy stored after train received `given`
\* A mutant: the assignment is not guarded by Boolean(activator)
storedActivator_unguarded(current, given) == given

storedActivator(current, given) == IF given # Undefined THEN given ELSE current

\* Line 53, the loop condition
\* A mutant: one iteration too many
loopCondition_ge(c) == c >= 0

\* A mutant: one iteration too few
loopCondition_gt1(c) == c > 1

loopCondition(c) == c > 0

\* Line 57, the loop variable after an iteration
\* A mutant: the counter loses two per iteration
nextCounter_two(c) == c - 2

nextCounter(c) == c - 1

\* -------------------------------------------------------------- inputs
\* Sizes passed to the constructor; 0 is a malformed size
Sizes == 0..MaxSize

\* The sizes Networks are constructed with
Shapes ==
  {z \in Sizes \X Sizes \X Sizes :
     shapeSize(<<z[2], z[1]>>) + shapeSize(<<z[3], z[2]>>) <= MaxWeights}

\* The learning rates passed to the constructor: the default of line 35
LearningRates == {Lit(3, 10)}

Counts == 0..MaxSteps

\* number[] arguments.  Callers pass vectors with at least one number: of
\* the length the Network was built for, one shorter and one longer; inputs
\* are all 1, targets are 0 but for the last, which is 1 or 0.
InputVector(n) == [k \in 1..n |-> Lit(1, 1)]

TargetVector(n, final) == [k \in 1..n |-> IF k = n THEN Lit(final, 1) ELSE Lit(0, 1)]

Lengths(size) == {n \in {size - 1, size, size + 1} : n >= 1}

\* The length of a vector made for a layer: the layer's size, 1 for an
\* empty layer
FitLength(size) == IF size >= 1 THEN size ELSE 1

\* The length of a targets vector that does not fit: one shorter where
\* there is one, one longer otherwise
UnfitLength(size) == IF size >= 2 THEN size - 1 ELSE size + 1

\* The items callers train on: 1 and 2 are made for the Network (with a
\* last target of 1 and of 0), 3 has one input more, 4 has unfit targets
ItemKinds == {1, 2, 3, 4}

TrainItem(kind, inSz, outSz) ==
  [inputs  |-> InputVector(IF kind = 3 THEN FitLength(inSz) + 1 ELSE FitLength(inSz)),
   targets |-> TargetVector(IF kind = 4 THEN UnfitLength(outSz) ELSE FitLength(outSz),
                            IF kind = 2 THEN 0 ELSE 1)]

\* The k-th smallest member of a set of integers
Nth(S, k) == CHOOSE x \in S : Cardinality({y \in S : y < x}) = k - 1

\* trainSet arguments: the empty list, and lists of up to MaxSet items of
\* different kinds that start with an item of kind 1
TrainSets(inSz, outSz) ==
  {<<>>} \cup
  { [k \in 1..Cardinality(kinds) |-> TrainItem(Nth(kinds, k), inSz, outSz)] :
      kinds \in {K \in SUBSET ItemKinds : 1 \in K /\ Cardinality(K) <= MaxSet} }

\* --------------------------------------------------------------- state
VARIABLES
  pc,          \* "start": no Network yet; "idle": between calls; "loop": inside train
  inputSize, hiddenSize, outputSize, LR,
  weightsIH, weightsHO, activator,
  trainSet, counter,      \* the argument and the loop variable of the running train
  last,        \* the call made last: its arguments and how it ended
  call,        \* history of the train call, if the call made last is one
  step,        \* history of the training step the call made last attempted last
  supplied,    \* history: the strategy most recently handed to the Network
  totalSteps,  \* history: training steps attempted so far
  epoch,       \* history: how many training steps have assigned the weights
  stored       \* history: stored[e + 1] holds the weights after e such steps,
               \* the matrices whose entries Weight("IH", e, k) and
               \* Weight("HO", e, k) name

vars == <<pc, inputSize, hiddenSize, outputSize, LR, weightsIH, weightsHO,
          activator, trainSet, counter, last, call, step, supplied, totalSteps,
          epoch, stored>>

NoMat == Mat(<<0, 0>>, <<>>)

Last(op, status, inputs, value) ==
  [op |-> op, status |-> status, inputs |-> inputs, value |-> value]

NoCall == [count |-> 0, setLen |-> 0, drawn |-> <<>>, attempts |-> 0,
           stepsDone |-> 0, startIH |-> NoMat, startHO |-> NoMat, startEpoch |-> 0]

NoStep == [n |-> 0, act |-> Undefined, status |-> NoErr,
           wroteHO |-> FALSE, wroteIH |-> FALSE, preIH |-> NoMat, preHO |-> NoMat,
           preEpoch |-> 0, inputs |-> <<>>, targets |-> <<>>]

this == [weightsIH |-> weightsIH, weightsHO |-> weightsHO, LR |-> LR,
         activator |-> activator, epoch |-> epoch]

\* The number of assignments to the weights after a step with outcome r
epochAfter(e, r) == IF r.wroteHO \/ r.wroteIH THEN e + 1 ELSE e

Init ==
  /\ pc = "start"
  /\ inputSize = 0 /\ hiddenSize = 0 /\ outputSize = 0 /\ LR = Lit(0, 1)
  /\ weightsIH = NoMat /\ weightsHO = NoMat
  /\ activator = Undefined
  /\ trainSet = <<>> /\ counter = 0
  /\ last = Last("none", "ok", <<>>, NoMat)
  /\ call = NoCall /\ step = NoStep
  /\ supplied = Undefined
  /\ totalSteps = 0
  /\ epoch = 0
  /\ stored = <<>>

\* new Network(inputSize, hiddenSize, outputSize, LR)
Network ==
  /\ pc = "start"
  /\ \E z \in Shapes, lr \in LearningRates :
       LET i  == z[1]
           h  == z[2]
           o  == z[3]
           ih == constructWeightsIH(i, h)
           ho == constructWeightsHO(i, h, o)
       IN  IF ~IsMat(ih) \/ ~IsMat(ho)
           THEN /\ last' = Last("new", IF ~IsMat(ih) THEN ih.err ELSE ho.err, <<i, h, o>>, NoMat)
                /\ UNCHANGED <<pc, inputSize, hiddenSize, outputSize, LR, weightsIH,
                               weightsHO, activator, supplied, stored>>
           ELSE /\ pc' = "idle"
                /\ inputSize' = i /\ hiddenSize' = h /\ outputSize' = o /\ LR' = lr
                /\ weightsIH' = ih /\ weightsHO' = ho
                /\ activator' = "Sigmoid"
                /\ supplied' = "Sigmoid"
                /\ last' = Last("new", "ok", <<i, h, o>>, NoMat)
                /\ stored' = <<[IH |-> ih, HO |-> ho]>>
  /\ UNCHANGED <<trainSet, counter, call, step, totalSteps, epoch>>

\* train(trainSet, count, activator), lines 48-52: up to the loop
train ==
  /\ pc = "idle"
  /\ \E ts \in TrainSets(inputSize, outputSize), count \in Counts, given \in Activators \cup {Undefined} :
       /\ count <= MaxSteps - totalSteps
       /\ activator' = storedActivator(activator, given)
       /\ supplied' = IF given \in Activators THEN given ELSE supplied
       /\ trainSet' = ts
       /\ counter' = count
       /\ call' = [count |-> count, setLen |-> Len(ts), drawn |-> <<>>, attempts |-> 0,
                   stepsDone |-> 0, startIH |-> weightsIH, startHO |-> weightsHO,
                   startEpoch |-> epoch]
       /\ last' = Last("train", "running", <<>>, NoMat)
  /\ pc' = "loop"
  /\ step' = NoStep
  /\ UNCHANGED <<inputSize, hiddenSize, outputSize, LR, weightsIH, weightsHO, totalSteps,
                 epoch, stored>>

\* One iteration of the loop of train, lines 53-58
trainIteration ==
  /\ pc = "loop"
  /\ loopCondition(counter)
  /\ \E randIndex \in getRandomInt(0, Len(trainSet)) :
       IF randIndex + 1 \notin DOMAIN trainSet
       THEN \* destructuring undefined
            /\ pc' = "idle"
            /\ last' = Last("train", "TypeError", <<>>, NoMat)
            /\ trainSet' = <<>> /\ counter' = 0
            /\ UNCHANGED <<weightsIH, weightsHO, call, step, totalSteps, epoch, stored>>
       ELSE LET item == trainSet[randIndex + 1]
                r    == trainStep(this, item.inputs, item.targets)
            IN  /\ weightsIH' = r.weightsIH
                /\ weightsHO' = r.weightsHO
                /\ step' = [n |-> call.attempts + 1, act |-> activator,
                            status |-> r.err, wroteHO |-> r.wroteHO, wroteIH |-> r.wroteIH,
                            preIH |-> weightsIH, preHO |-> weightsHO, preEpoch |-> epoch,
                            inputs |-> item.inputs, targets |-> item.targets]
                /\ totalSteps' = totalSteps + 1
                /\ epoch' = epochAfter(epoch, r)
                /\ stored' = IF epochAfter(epoch, r) = epoch THEN stored
                              ELSE Append(stored, [IH |-> r.weightsIH, HO |-> r.weightsHO])
                /\ IF r.err # NoErr
                   THEN /\ pc' = "idle"
                        /\ last' = Last("train", r.err, <<>>, NoMat)
                        /\ call' = [call EXCEPT !.attempts = @ + 1, !.drawn = Append(@, randIndex)]
                        /\ trainSet' = <<>> /\ counter' = 0
                   ELSE /\ counter' = nextCounter(counter)
                        /\ call' = [call EXCEPT !.attempts = @ + 1, !.stepsDone = @ + 1,
                                                !.drawn = Append(@, randIndex)]
                        /\ UNCHANGED <<pc, last, trainSet>>
  /\ UNCHANGED <<inputSize, hiddenSize, outputSize, LR, activator, supplied>>

\* The loop of train ends and train returns
trainReturn ==
  /\ pc = "loop"
  /\ ~loopCondition(counter)
  /\ pc' = "idle"
  /\ last' = Last("train", "ok", <<>>, NoMat)
  /\ trainSet' = <<>> /\ counter' = 0
  /\ UNCHANGED <<inputSize, hiddenSize, outputSize, LR, weightsIH, weightsHO, activator,
                 call, step, supplied, totalSteps, epoch, stored>>

\* A mutant of query: the forward pass keeps its hidden layer in the Network
query_storing ==
  /\ pc = "idle"
  /\ \E n \in Lengths(inputSize) :
       LET inputs      == InputVector(n)
           inputMatrix == column(inputs)
           result      == forwardPropagation(this, inputMatrix)
       IN  /\ last' = Last("query", IF result.err = NoErr THEN "ok" ELSE result.err, inputs,
                           IF result.err = NoErr THEN result.finalOutputs ELSE NoMat)
           /\ weightsIH' = IF result.err = NoErr THEN result.hiddenOutputs ELSE weightsIH
  /\ call' = NoCall /\ step' = NoStep
  /\ UNCHANGED <<pc, inputSize, hiddenSize, outputSize, LR, weightsHO, activator,
                 trainSet, counter, supplied, totalSteps, epoch, stored>>

\* A mutant of query: the inputs are cut to the first inputSize numbers
query_truncating ==
  /\ pc = "idle"
  /\ \E n \in Lengths(inputSize) :
       LET inputs      == InputVector(n)
           inputMatrix == column(SubSeq(inputs, 1, inputSize))
           result      == forwardPropagation(this, inputMatrix)
       IN  last' = Last("query", IF result.err = NoErr THEN "ok" ELSE result.err, inputs,
                        IF result.err = NoErr THEN result.finalOutputs ELSE NoMat)
  /\ call' = NoCall /\ step' = NoStep
  /\ UNCHANGED <<pc, inputSize, hiddenSize, outputSize, LR, weightsIH, weightsHO,
                 activator, trainSet, counter, supplied, totalSteps, epoch, stored>>

\* query(inputs)
query ==
  /\ pc = "idle"
  /\ \E n \in Lengths(inputSize) :
       LET inputs      == InputVector(n)
           inputMatrix == column(inputs)
           result      == forwardPropagation(this, inputMatrix)
       IN  last' = Last("query", IF result.err = NoErr THEN "ok" ELSE result.err, inputs,
                        IF result.err = NoErr THEN result.finalOutputs ELSE NoMat)
  /\ call' = NoCall /\ step' = NoStep
  /\ UNCHANGED <<pc, inputSize, hiddenSize, outputSize, LR, weightsIH, weightsHO,
                 activator, trainSet, counter, supplied, totalSteps, epoch, stored>>

Next == Network \/ train \/ trainIteration \/ trainReturn \/ query

Spec == Init /\ [][Next]_vars

\* ------------------------------------------------------------- claims
\* The Network was built with positive sizes
WellSized == inputSize >= 1 /\ hiddenSize >= 1 /\ outputSize >= 1

\* A training step has assigned m: its entries are sums of an old weight
\* and a delta
Trained(m) == m.data # <<>> /\ \A k \in DOMAIN m.data : m.data[k][1] = "+"

\* C1: in every state of a Network built with positive sizes, weightsIH is
\* a hiddenSize x inputSize matrix and weightsHO an outputSize x hiddenSize
\* matrix; training changes the entries, never the shapes.
C1_ShapeInvariant ==
  (pc # "start" /\ WellSized) =>
     /\ IsMat(weightsIH)
     /\ weightsIH.shape = <<hiddenSize, inputSize>>
     /\ Len(weightsIH.data) = hiddenSize * inputSize
     /\ IsMat(weightsHO)
     /\ weightsHO.shape = <<outputSize, hiddenSize>>
     /\ Len(weightsHO.data) = outputSize * hiddenSize

\* Two completed steps changed both matrices of a Network whose layers differ in size
C1_Witness ==
  /\ pc = "idle" /\ last.op = "train" /\ last.status = "ok"
  /\ call.stepsDone = 2
  /\ inputSize = 2 /\ hiddenSize = 1 /\ outputSize = 1
  /\ Trained(weightsIH) /\ Trained(weightsHO)
  /\ weightsIH # call.startIH /\ weightsHO # call.startHO

\* C2: a query step, whatever its argument and outcome, leaves weightsIH,
\* weightsHO, the learning rate and the stored strategy as they were.
C2_QueryReadOnly ==
  [][(pc = "idle" /\ pc' = "idle" /\ last'.op = "query")
       => UNCHANGED <<weightsIH, weightsHO, LR, activator>>]_vars

\* A query answered by a trained Network
C2_Witness ==
  /\ last.op = "query" /\ last.status = "ok"
  /\ WellSized /\ Len(last.inputs) = inputSize
  /\ Trained(weightsHO)
  /\ activator = "Caller"

\* C3: train(trainSet, 0) attempts no step, leaves both weight matrices as
\* they were when it was called, can return, and returns without an error,
\* for every trainSet, the empty one included.
C3_ZeroCountNoOp ==
  (last.op = "train" /\ call.count = 0) =>
     /\ call.attempts = 0
     /\ weightsIH = call.startIH /\ weightsHO = call.startHO
     /\ pc = "loop" => ENABLED trainReturn
     /\ pc = "idle" => last.status = "ok"

\* train(<<>>, 0) returned on a Network that had been trained before
C3_Witness ==
  /\ pc = "idle" /\ last.op = "train" /\ last.status = "ok"
  /\ call.count = 0 /\ call.setLen = 0
  /\ Trained(weightsHO)

\* C4: a query whose inputs are not inputSize long ends with the matrix
\* product's dimension error (numjs ValueError) and returns no output.
C4_QueryDimensionMismatch ==
  (last.op = "query" /\ Len(last.inputs) # inputSize) =>
     /\ last.status = "ValueError"
     /\ last.value = NoMat

\* A query with too few inputs was refused by a trained Network
C4_Witness ==
  /\ last.op = "query" /\ last.status = "ValueError"
  /\ WellSized /\ Len(last.inputs) < inputSize
  /\ Trained(weightsHO)

C6_StepAllOrNothing ==
  step.n >= 1 =>
     /\ step.wroteHO = step.wroteIH
     /\ step.status = NoErr => (step.wroteHO /\ step.wroteIH)
     /\ step.status # NoErr =>
          /\ ~step.wroteHO /\ ~step.wroteIH
          /\ weightsIH = step.preIH /\ weightsHO = step.preHO
     /\ (Len(step.inputs) # inputSize \/ Len(step.targets) # outputSize) =>
          step.status # NoErr

\* After a completed step, a step with too few targets threw
C6_Witness ==
  /\ step.n = 2 /\ step.status # NoErr
  /\ Len(step.inputs) = inputSize /\ Len(step.targets) < outputSize
  /\ step.preHO # call.startHO
  /\ hiddenSize # outputSize

ForwardWith(strategy, inputs) ==
  forwardPropagation([this EXCEPT !.activator = strategy], column(inputs)).finalOutputs

\* C7: the stored strategy is always the one most recently handed to the
\* Network (by the constructor's default or by a train call that passed
\* one, whatever its count); every training step runs with it and every
\* answered query is the forward pass under it.
C7_ActivatorPersists ==
  pc # "start" =>
     /\ activator = supplied
     /\ step.n >= 1 => step.act = supplied
     /\ (last.op = "query" /\ last.status = "ok") =>
          last.value = ForwardWith(supplied, last.inputs)

\* A query answered under the caller's strategy, which only a train call
\* making no step had passed
C7_Witness ==
  /\ last.op = "query" /\ last.status = "ok"
  /\ supplied = "Caller" /\ totalSteps = 0
  /\ last.value # ForwardWith("Sigmoid", last.inputs)

\* C8: constructing a Network with a size that is not positive fails.
C8_MalformedSizeRejected ==
  (last.op = "new" /\ \E k \in 1..3 : last.inputs[k] <= 0) => last.status # "ok"

RECURSIVE StepsFrom(_, _, _, _)
\* The weights after training in turn on the items drawn[1..k] of set, from self
StepsFrom(self, set, drawn, k) ==
  IF k = 0 THEN [weightsIH |-> self.weightsIH, weightsHO |-> self.weightsHO,
                 epoch |-> self.epoch]
  ELSE LET before == StepsFrom(self, set, drawn, k - 1)
           item   == set[drawn[k] + 1]
           r      == trainStep([self EXCEPT !.weightsIH = before.weightsIH,
                                            !.weightsHO = before.weightsHO,
                                            !.epoch = before.epoch],
                               item.inputs, item.targets)
       IN  [weightsIH |-> r.weightsIH, weightsHO |-> r.weightsHO,
            epoch |-> epochAfter(before.epoch, r)]

\* C9: while train runs, the iterations left are a natural number that
\* with the steps completed adds up to count, so it performs no more than
\* count steps; with none left it can return; every index drawn is one of
\* the trainSet, and the weights are those of training on the drawn items
\* one after the other, each step starting from the weights the step
\* before it left.  A train that returns has completed exactly count steps.
C9_TrainRunsCountSteps ==
  /\ pc = "loop" =>
       /\ counter >= 0
       /\ counter + call.stepsDone = call.count
       /\ call.attempts = call.stepsDone
       /\ Len(call.drawn) = call.stepsDone
       /\ \A k \in DOMAIN call.drawn : call.drawn[k] \in 0..(Len(trainSet) - 1)
       /\ counter = 0 => ENABLED trainReturn
       /\ LET now == StepsFrom([this EXCEPT !.weightsIH = call.startIH,
                                            !.weightsHO = call.startHO,
                                            !.epoch = call.startEpoch],
                               trainSet, call.drawn, Len(call.drawn))
          IN  weightsIH = now.weightsIH /\ weightsHO = now.weightsHO
  /\ (pc = "idle" /\ last.op = "train" /\ last.status = "ok") =>
       /\ call.stepsDone = call.count
       /\ call.attempts = call.count
       /\ Len(call.drawn) = call.count

\* train returned after two steps that drew the same item twice
C9_Witness ==
  /\ pc = "idle" /\ last.op = "train" /\ last.status = "ok"
  /\ call.count = 2 /\ call.stepsDone = 2 /\ call.setLen = 2
  /\ call.drawn = <<0, 0>>
  /\ weightsIH # call.startIH

\* The formulas of the backward pass, entry by entry
Entry(m, r, c) == m.data[(r - 1) * m.shape[2] + c]

\* transpose(ho) * outputErrors
HiddenErrors(ho, outputErrors) ==
  [j \in 1..ho.shape[2] |->
     SumTo([k \in 1..ho.shape[1] |-> Times(Entry(ho, k, j), outputErrors[k])], ho.shape[1])]

\* LR * ((errors * outputs * (1 - outputs)) * transpose(inputs))
Delta(lr, errors, outputs, inputs) ==
  [k \in 1..(Len(outputs) * Len(inputs)) |->
     LET r == ((k - 1) \div Len(inputs)) + 1
         c == ((k - 1) % Len(inputs)) + 1
         gradient == Times(Times(errors[r], outputs[r]), Minus(Lit(1, 1), outputs[r]))
     IN  Times(Plus(Lit(0, 1), Times(gradient, inputs[c])), lr)]

\* C10: after a completed step, weightsHO is the step's old weightsHO plus
\* deltaHO and weightsIH the old weightsIH plus deltaIH, where the hidden
\* errors are transpose(old weightsHO) * outputErrors.
C10_UpdateFromOldWeights ==
  (step.n >= 1 /\ step.status = NoErr) =>
     LET old == [this EXCEPT !.weightsIH = step.preIH, !.weightsHO = step.preHO,
                             !.activator = step.act, !.epoch = step.preEpoch]
         oldIH         == weightsIHOf(old)
         oldHO         == weightsHOOf(old)
         forward       == forwardPropagation(old, column(step.inputs))
         hiddenOutputs == forward.hiddenOutputs.data
         finalOutputs  == forward.finalOutputs.data
         outputErrors  == [k \in 1..Len(finalOutputs) |->
                             Minus(step.targets[k], finalOutputs[k])]
         hiddenErrors  == HiddenErrors(oldHO, outputErrors)
         deltaHO       == Delta(LR, outputErrors, finalOutputs, hiddenOutputs)
         deltaIH       == Delta(LR, hiddenErrors, hiddenOutputs, step.inputs)
     IN  /\ stored[step.preEpoch + 1] = [IH |-> step.preIH, HO |-> step.preHO]
         /\ weightsHO.data = [k \in DOMAIN deltaHO |-> Plus(oldHO.data[k], deltaHO[k])]
         /\ weightsIH.data = [k \in DOMAIN deltaIH |-> Plus(oldIH.data[k], deltaIH[k])]

\* A second step on a Network with two outputs and two hidden nodes, after
\* a first step that assigned both matrices
C10_Witness ==
  /\ step.n = 2 /\ step.status = NoErr
  /\ step.preHO # call.startHO /\ Trained(step.preHO)
  /\ weightsIH # step.preIH /\ weightsHO # step.preHO
  /\ outputSize = 2 /\ hiddenSize = 2

====
